---- MODULE Spec2Model ----
(***************************************************************************)
(* Model of returnn/torch/data_pipeline.py: the Batching and Chunker       *)
(* generators, stepped between the points at which a Python generator can  *)
(* be suspended or can raise.  NumbersDict (returnn.util.basic) is not     *)
(* part of the sources at hand and is modelled after the SizeVector        *)
(* contract of the specification.                                          *)
(***************************************************************************)
EXTENDS Integers, Sequences, FiniteSets, TLC

\* ---------------------------------------------------------------- bounds
MaxStream == 3        \* records the upstream of Batching delivers at most
MaxLen == 3           \* largest axis-0 length of a field (Batching records)
MaxBudget == 4        \* largest configured batch_size value
MaxSeqsBound == 2     \* largest configured finite max_seqs

\* sys.maxsize: "no limit".  Any value above every product the bounded
\* model can form behaves alike; the largest TLC integer is used.
sys_maxsize == 2147483647

Fields == {"x", "y"}

\* ------------------------------------------------------------ NumbersDict
\* A NumbersDict is [t |-> "NumbersDict", dict |-> field -> number,
\* value |-> <<>> | <<default>>]; Python arguments are tagged alike:
\* [t |-> "None"], [t |-> "int", v |-> n], [t |-> "dict", d |-> mapping],
\* [t |-> "tuple", a |-> first, b |-> second].
EmptyDict == [k \in {} |-> 0]

NoValue == <<>>

NumbersDict(v) ==
    IF v.t = "int" THEN [t |-> "NumbersDict", dict |-> EmptyDict, value |-> <<v.v>>]
    ELSE IF v.t = "dict" THEN [t |-> "NumbersDict", dict |-> v.d, value |-> NoValue]
    ELSE [t |-> "NumbersDict", dict |-> v.dict, value |-> v.value]

PyInt(n) == [t |-> "int", v |-> n]
PyDict(d) == [t |-> "dict", d |-> d]
PyNone == [t |-> "None"]
PyTuple(a, b) == [t |-> "tuple", a |-> a, b |-> b]

keys(nd) == DOMAIN nd.dict

\* nd[k], with a missing key read as the default (0 if none is declared).
Item(nd, k) ==
    IF k \in DOMAIN nd.dict THEN nd.dict[k]
    ELSE IF nd.value # NoValue THEN nd.value[1]
    ELSE 0

SetMin(S) == CHOOSE m \in S : \A n \in S : m <= n

values(nd) ==
    {nd.dict[k] : k \in DOMAIN nd.dict}
        \cup (IF nd.value # NoValue THEN {nd.value[1]} ELSE {})

min_value(nd) == SetMin(values(nd))

PyMax(a, b) == IF a >= b THEN a ELSE b

elementwise_max(a, b) ==
    [t |-> "NumbersDict",
     dict |-> [k \in keys(a) \cup keys(b) |-> PyMax(Item(a, k), Item(b, k))],
     value |-> IF a.value = NoValue /\ b.value = NoValue THEN NoValue
               ELSE IF a.value = NoValue THEN b.value
               ELSE IF b.value = NoValue THEN a.value
               ELSE <<PyMax(a.value[1], b.value[1])>>]

scale(a, n) ==
    [t |-> "NumbersDict",
     dict |-> [k \in keys(a) |-> a.dict[k] * n],
     value |-> IF a.value = NoValue THEN NoValue ELSE <<a.value[1] * n>>]

\* any_compare(other, lambda a, b: a > b)
any_exceeds(a, other) ==
    \/ \E k \in keys(a) :
         \/ k \in keys(other) /\ a.dict[k] > other.dict[k]
         \/ k \notin keys(other) /\ other.value # NoValue
                                 /\ a.dict[k] > other.value[1]
    \/ a.value # NoValue /\ other.value # NoValue
                         /\ a.value[1] > other.value[1]

\* --------------------------------------------------------------- Batching
VARIABLES
    b_args,                         \* the arguments of Batching.__init__
    b_source,                       \* Batching._dataset: the shapes its records
                                    \* can have and how many it delivers at most
    _max_batch_size,                \* Batching._max_batch_size
    _max_seqs,                      \* Batching._max_seqs
    b_pc,                           \* position of the generator Batching.__iter__
    b_drawn,                        \* records drawn from self._dataset so far
    b_exhausted,                    \* self._dataset raised StopIteration
    data_dict,                      \* loop variable of Batching.__iter__
    current_batch,
    current_max_sequence_lengths,
    b_out                           \* the batches yielded so far, in order

bvars == <<b_args, b_source, _max_batch_size, _max_seqs, b_pc, b_drawn,
          b_exhausted, data_dict,
           current_batch, current_max_sequence_lengths, b_out>>

\* ---------------------------------------------------------------- Chunker
VARIABLES
    chunking,                       \* the chunking argument of Chunker.__init__
    _chunk_size,                    \* Chunker._chunk_size
    _chunk_step,                    \* Chunker._chunk_step
    c_pc,                           \* position of the generator Chunker.__iter__
    c_source,                       \* the records the upstream may deliver
    c_drawn,                        \* records drawn from self._dataset so far
    chunking_data_keys,
    c_data_dict,                    \* loop variable data_dict of Chunker.__iter__
    data_chunks,
    num_chunks,
    chunk_index,
    c_out,                          \* the chunk records yielded so far, in order
    c_error                         \* the exception that ended the Chunker, or ""

cvars == <<chunking, _chunk_size, _chunk_step, c_pc, c_source, c_drawn,
           chunking_data_keys, c_data_dict, data_chunks, num_chunks,
           chunk_index, c_out, c_error>>

\* ------------------------------------------------------------ collate_batch
VARIABLES
    k_batch,                         \* the argument of collate_batch
    k_pc,                           \* "call", "returned" or "error"
    k_res,                          \* what collate_batch returned
    k_error                         \* the exception collate_batch raised, or ""

kvars == <<k_batch, k_pc, k_res, k_error>>

vars == <<bvars, cvars, kvars>>

\* A record of the stream: its position in the stream and, per field, the
\* axis-0 length of the field's array (data.shape[0]).
\* Field x takes every length beside the shortest y; beside the longest y it
\* takes the two extreme ones.
Shapes ==
    {s \in [Fields -> 1..MaxLen] :
        \/ s["y"] = 1
        \/ s["y"] = MaxLen /\ s["x"] \in {1, MaxLen}}

NoRecord == [id |-> 0, shape |-> EmptyDict]

\* The batch_size / max_seqs arguments of Batching.__init__: no limit, one
\* limit for all fields, a limit for x alone, a limit for each field (that
\* of y the smallest or the largest).
BatchSizeArgs ==
    {PyNone}
        \cup {PyInt(n) : n \in 1..MaxBudget}
        \cup {PyDict([k \in {"x"} |-> n]) : n \in 1..MaxBudget}
        \cup {PyDict(d) : d \in {e \in [Fields -> 1..MaxBudget] :
                                      e["y"] \in {1, MaxBudget}}}

MaxSeqsArgs == {PyNone, PyInt(-1)} \cup {PyInt(n) : n \in 1..MaxSeqsBound}

Batching_max_batch_size(batch_size) ==
    NumbersDict(IF batch_size.t = "None" THEN PyInt(sys_maxsize) ELSE batch_size)

Batching_max_seqs(max_seqs) ==
    IF max_seqs.t = "None" \/ max_seqs = PyInt(-1) THEN sys_maxsize ELSE max_seqs.v

\* lines 188-189
BArgsOk(max_batch_size, max_seqs) ==
    /\ min_value(max_batch_size) > 0
    /\ max_seqs > 0

BInit ==
    /\ \E batch_size \in BatchSizeArgs, max_seqs \in MaxSeqsArgs :
         /\ b_args = [batch_size |-> batch_size, max_seqs |-> max_seqs]
         /\ _max_batch_size = Batching_max_batch_size(batch_size)
         /\ _max_seqs = Batching_max_seqs(max_seqs)
    /\ BArgsOk(_max_batch_size, _max_seqs)
    /\ b_source = [shapes |-> Shapes, length |-> MaxStream]
    /\ b_pc = "start"
    /\ b_drawn = <<>>
    /\ b_exhausted = FALSE
    /\ data_dict = NoRecord
    /\ current_batch = <<>>
    /\ current_max_sequence_lengths = NumbersDict(PyInt(0))
    /\ b_out = <<>>

\* faulty variant: the maxima of the batch handed over are kept
lengths_after_seal_Kept(cur, rec) ==
    elementwise_max(cur, NumbersDict(PyDict(rec.shape)))

\* line 215: the maxima of the batch the record starts
lengths_after_seal(cur, rec) == NumbersDict(PyDict(rec.shape))

\* line 207
sequence_lengths(rec) == NumbersDict(PyDict(rec.shape))

\* faulty variant: the lengths of the batch so far are forgotten
max_sequence_lengths_OnlyNew(cur, rec) == sequence_lengths(rec)

\* line 209
max_sequence_lengths_if_included(cur, rec) ==
    elementwise_max(cur, sequence_lengths(rec))

\* faulty variant: the record under consideration is not counted
batch_size_NotCountingNew(cur, batch, rec) ==
    scale(max_sequence_lengths_if_included(cur, rec), Len(batch))

\* line 210
batch_size_if_included(cur, batch, rec) ==
    scale(max_sequence_lengths_if_included(cur, rec), Len(batch) + 1)

\* faulty variant: every record seals the batch before it
BExceeds_Always(cur, batch, rec, limit) == batch # <<>>

\* faulty variant: a batch that meets the limit exactly counts as too large
BExceeds_AtLimit(cur, batch, rec, limit) ==
    /\ batch # <<>>
    /\ \/ any_exceeds(batch_size_if_included(cur, batch, rec), limit)
       \/ \E k \in keys(limit) :
            Item(batch_size_if_included(cur, batch, rec), k) = Item(limit, k)

\* line 212
BExceeds(cur, batch, rec, limit) ==
    /\ batch # <<>>
    /\ any_exceeds(batch_size_if_included(cur, batch, rec), limit)

\* faulty variant: off by one
BMaxSeqsTest_OffByOne(batch) == Len(batch) > _max_seqs

\* line 201
BMaxSeqsTest(batch) == Len(batch) = _max_seqs

\* faulty variant: the trailing batch is forgotten
BFinalTest_Never(batch) == FALSE

\* line 220
BFinalTest(batch) == batch # <<>>

\* lines 207-218 for the record rec, entered with the batch and the maxima
\* given: up to the yield of line 213, or back to the loop head.
BSizeStep(batch, cur, rec) ==
    IF BExceeds(cur, batch, rec, _max_batch_size)
    THEN /\ b_out' = Append(b_out, batch)
         /\ b_pc' = "yield_size"
         /\ current_batch' = batch
         /\ current_max_sequence_lengths' = cur
    ELSE /\ current_batch' = Append(batch, rec)
         /\ current_max_sequence_lengths' =
              max_sequence_lengths_if_included(cur, rec)
         /\ b_pc' = "for"
         /\ b_out' = b_out

\* Before Batching.__init__ has run: its arguments and its dataset.
BNew(batch_size, max_seqs, source) ==
    /\ b_args = [batch_size |-> batch_size, max_seqs |-> max_seqs]
    /\ b_source = source
    /\ _max_batch_size = NumbersDict(PyInt(sys_maxsize))
    /\ _max_seqs = sys_maxsize
    /\ b_pc = "new"
    /\ b_drawn = <<>>
    /\ b_exhausted = FALSE
    /\ data_dict = NoRecord
    /\ current_batch = <<>>
    /\ current_max_sequence_lengths = NumbersDict(PyInt(0))
    /\ b_out = <<>>

\* Batching.__init__, lines 184-189
BConstruct ==
    /\ UNCHANGED <<cvars, kvars>>
    /\ b_pc = "new"
    /\ _max_batch_size' = Batching_max_batch_size(b_args.batch_size)
    /\ _max_seqs' = Batching_max_seqs(b_args.max_seqs)
    /\ b_pc' = IF BArgsOk(_max_batch_size', _max_seqs') THEN "start" ELSE "error"
    /\ UNCHANGED <<b_args, b_source, b_drawn, b_exhausted, data_dict, current_batch,
                   current_max_sequence_lengths, b_out>>

\* lines 197-198: the generator is started
BStart ==
    /\ UNCHANGED <<cvars, kvars>>
    /\ b_pc = "start"
    /\ current_batch' = <<>>
    /\ current_max_sequence_lengths' = NumbersDict(PyInt(0))
    /\ b_pc' = "for"
    /\ UNCHANGED <<b_args, b_source, _max_batch_size, _max_seqs, b_drawn,
                   b_exhausted, data_dict, b_out>>

\* lines 200-218: the upstream hands over its next record, which is
\* processed up to the next yield (line 202 or 213) or to the loop head
BDraw ==
    /\ UNCHANGED <<cvars, kvars>>
    /\ b_pc = "for"
    /\ Len(b_drawn) < b_source.length
    /\ \E shape \in b_source.shapes :
         LET rec == [id |-> Len(b_drawn) + 1, shape |-> shape] IN
         /\ b_drawn' = Append(b_drawn, rec)
         /\ data_dict' = rec
         /\ IF BMaxSeqsTest(current_batch)
            THEN /\ b_out' = Append(b_out, current_batch)
                 /\ b_pc' = "yield_max_seqs"
                 /\ UNCHANGED <<current_batch, current_max_sequence_lengths>>
            ELSE BSizeStep(current_batch, current_max_sequence_lengths, rec)
    /\ UNCHANGED <<b_args, b_source, _max_batch_size, _max_seqs, b_exhausted>>

\* faulty variant: lines 203-204 are missing, the batch handed over is kept
BResumeMaxSeqs_KeepBatch ==
    /\ UNCHANGED <<cvars, kvars>>
    /\ b_pc = "yield_max_seqs"
    /\ BSizeStep(current_batch, current_max_sequence_lengths, data_dict)
    /\ UNCHANGED <<b_args, b_source, _max_batch_size, _max_seqs, b_drawn,
                   b_exhausted, data_dict>>

\* lines 203-218: resumed after the yield of line 202
BResumeMaxSeqs ==
    /\ UNCHANGED <<cvars, kvars>>
    /\ b_pc = "yield_max_seqs"
    /\ BSizeStep(<<>>, NumbersDict(PyInt(0)), data_dict)
    /\ UNCHANGED <<b_args, b_source, _max_batch_size, _max_seqs, b_drawn,
                   b_exhausted, data_dict>>

\* faulty variant: the batch is reset as after line 202, the record is lost
BResumeSize_Reset ==
    /\ UNCHANGED <<cvars, kvars>>
    /\ b_pc = "yield_size"
    /\ current_batch' = <<>>
    /\ current_max_sequence_lengths' = NumbersDict(PyInt(0))
    /\ b_pc' = "for"
    /\ UNCHANGED <<b_args, b_source, _max_batch_size, _max_seqs, b_drawn,
                   b_exhausted, data_dict, b_out>>

\* lines 214-215: resumed after the yield of line 213
BResumeSize ==
    /\ UNCHANGED <<cvars, kvars>>
    /\ b_pc = "yield_size"
    /\ current_batch' = <<data_dict>>
    /\ current_max_sequence_lengths' =
         lengths_after_seal(current_max_sequence_lengths, data_dict)
    /\ b_pc' = "for"
    /\ UNCHANGED <<b_args, b_source, _max_batch_size, _max_seqs, b_drawn,
                   b_exhausted, data_dict, b_out>>

\* lines 200, 220-221: the upstream is exhausted; the trailing batch
BExhausted ==
    /\ UNCHANGED <<cvars, kvars>>
    /\ b_pc = "for"
    /\ b_exhausted' = TRUE
    /\ IF BFinalTest(current_batch)
       THEN /\ b_out' = Append(b_out, current_batch)
            /\ b_pc' = "yield_final"
       ELSE /\ b_out' = b_out
            /\ b_pc' = "done"
    /\ UNCHANGED <<b_args, b_source, _max_batch_size, _max_seqs, b_drawn,
                   data_dict, current_batch, current_max_sequence_lengths>>

\* resumed after the yield of line 221: the generator returns
BReturn ==
    /\ UNCHANGED <<cvars, kvars>>
    /\ b_pc = "yield_final"
    /\ b_pc' = "done"
    /\ UNCHANGED <<b_args, b_source, _max_batch_size, _max_seqs, b_drawn,
                   b_exhausted, data_dict, current_batch,
                   current_max_sequence_lengths, b_out>>

BNext ==
    \/ BStart
    \/ BDraw
    \/ BResumeMaxSeqs
    \/ BResumeSize
    \/ BExhausted
    \/ BReturn

BIdle ==
    /\ b_args = [batch_size |-> PyNone, max_seqs |-> PyNone]
    /\ b_source = [shapes |-> {}, length |-> 0]
    /\ _max_batch_size = NumbersDict(PyInt(sys_maxsize))
    /\ _max_seqs = sys_maxsize
    /\ b_pc = "idle"
    /\ b_drawn = <<>>
    /\ b_exhausted = FALSE
    /\ data_dict = NoRecord
    /\ current_batch = <<>>
    /\ current_max_sequence_lengths = NumbersDict(PyInt(0))
    /\ b_out = <<>>

\* ---------------------------------------------------------------- Chunker
\* An array is the sequence of its axis-0 elements, each named by its
\* position in the array it was created in.
Iota(n) == [i \in 1..n |-> i]

PyMin(a, b) == IF a <= b THEN a ELSE b

\* faulty variant: the slice stops one element early
Slice_OneShort(data, start, stop) ==
    SubSeq(data, start + 1, PyMin(stop, Len(data)) - 1)

\* data[start : stop] for 0 <= start
Slice(data, start, stop) == SubSeq(data, start + 1, PyMin(stop, Len(data)))

\* faulty variant: rounded down
RangeLen_Floor(stop, step) == IF stop <= 0 THEN 0 ELSE stop \div step

\* len(range(0, stop, step)) for step > 0
RangeLen(stop, step) == IF stop <= 0 THEN 0 ELSE (stop - 1) \div step + 1

\* faulty variant: the first start is skipped
Range_FromStep(stop, step) == [i \in 1..RangeLen(stop, step) |-> i * step]

\* range(0, stop, step) for step > 0
Range(stop, step) == [i \in 1..RangeLen(stop, step) |-> (i - 1) * step]

\* faulty variant: the window is as long as the step
ChunksOf_StepWindow(data, chunk_size, chunk_step) ==
    LET starts == Range(Len(data), chunk_step) IN
    [i \in 1..Len(starts) |-> Slice(data, starts[i], starts[i] + chunk_step)]

\* lines 110-112
ChunksOf(data, chunk_size, chunk_step) ==
    LET starts == Range(Len(data), chunk_step) IN
    [i \in 1..Len(starts) |-> Slice(data, starts[i], starts[i] + chunk_size)]

\* faulty variant: the key sets are not compared
SameKeys_Unchecked(chunk_step, chunk_size) == TRUE

\* line 159
SameKeys(chunk_step, chunk_size) == keys(chunk_step) = keys(chunk_size)

\* faulty variant: the default step is one frame
StepOrDefault_OneFrame(chunk_step, chunk_size) ==
    IF chunk_step.t = "None" \/ chunk_step = PyInt(0) THEN PyInt(1) ELSE chunk_step

\* lines 155-156
StepOrDefault(chunk_step, chunk_size) ==
    IF chunk_step.t = "None" \/ chunk_step = PyInt(0) THEN chunk_size ELSE chunk_step

\* Chunker._parse_chunking, lines 147-161
_parse_chunking(arg) ==
    LET pair == IF arg.t = "tuple" THEN arg ELSE PyTuple(arg, PyNone)
        size0 == IF pair.a.t = "None" THEN PyInt(0) ELSE pair.a
        failed(e) == [error |-> e,
                      chunk_size |-> NumbersDict(PyInt(0)),
                      chunk_step |-> NumbersDict(PyInt(0))]
    IN
    IF size0.t \notin {"int", "dict"} THEN failed("AssertionError")
    ELSE
    LET chunk_size == NumbersDict(size0) IN
    IF values(chunk_size) = {} THEN failed("ValueError")
    ELSE IF ~(min_value(chunk_size) > 0) THEN failed("AssertionError")
    ELSE
    LET step0 == StepOrDefault(pair.b, chunk_size) IN
    IF step0.t \notin {"int", "dict", "NumbersDict"} THEN failed("AssertionError")
    ELSE
    LET chunk_step == NumbersDict(step0) IN
    IF ~SameKeys(chunk_step, chunk_size) THEN failed("AssertionError")
    ELSE IF values(chunk_step) = {} THEN failed("ValueError")
    ELSE IF ~(min_value(chunk_step) > 0) THEN failed("AssertionError")
    ELSE [error |-> "", chunk_size |-> chunk_size, chunk_step |-> chunk_step]

\* The iteration order of a dict's keys (insertion order; x before y).
KeyOrder == <<"x", "y">>

KeyList(S) == SelectSeq(KeyOrder, LAMBDA k : k \in S)

\* faulty variant: the assertion is missing
SameNumChunks_Unchecked(n, chunks) == TRUE

\* lines 117-119
SameNumChunks(n, chunks) == n = Len(chunks)

\* lines 102-123 for one record: the chunks of every key of chunking_data_keys,
\* or the exception raised on the way.
RECURSIVE ChunkKeys(_, _, _, _, _)
ChunkKeys(ks, rec, size, step, acc) ==
    IF ks = <<>> \/ acc.error # "" THEN acc
    ELSE
    LET data_key == Head(ks) IN
    IF data_key \notin DOMAIN rec.data
    THEN [acc EXCEPT !.error = "KeyError"]
    ELSE
    LET chunks == ChunksOf(rec.data[data_key], Item(size, data_key),
                           Item(step, data_key))
    IN
    IF acc.num_chunks # <<>> /\ ~SameNumChunks(acc.num_chunks[1], chunks)
    THEN [acc EXCEPT !.error = "AssertionError: different number of chunks"]
    ELSE ChunkKeys(Tail(ks), rec, size, step,
                   [error |-> "",
                    num_chunks |-> IF acc.num_chunks = <<>> THEN <<Len(chunks)>>
                                   ELSE acc.num_chunks,
                    data_chunks |-> [k \in DOMAIN acc.data_chunks \cup {data_key} |->
                                        IF k = data_key THEN chunks
                                        ELSE acc.data_chunks[k]]])

\* line 123
NumChunksTest(n) == n # <<>> /\ n[1] # 0

ChunkRecord(ks, rec, size, step) ==
    LET res == ChunkKeys(ks, rec, size, step,
                         [error |-> "", num_chunks |-> <<>>,
                          data_chunks |-> EmptyDict])
    IN
    IF res.error # "" THEN res
    ELSE IF ~NumChunksTest(res.num_chunks)
    THEN [res EXCEPT !.error = "AssertionError: no chunk produced"]
    ELSE res

\* lines 125-134: the record yielded for chunk_index (counted from 0)
chunk_data(rec, chunks, index) ==
    [data_key \in DOMAIN rec.data |->
        IF data_key \in DOMAIN chunks THEN chunks[data_key][index + 1]
        ELSE rec.data[data_key]]

\* An array object: the array of field key of record rec as the upstream
\* delivered it (copy 0), or a copy made of it.
Original(rec, data_key) == [rec |-> rec.id, key |-> data_key, copy |-> 0]

\* faulty variant: no copy is made, the chunk holds the record's own array
CopyOf_Shared(rec, data_key, index) == Original(rec, data_key)

\* line 134: deepcopy makes a new object for every chunk
CopyOf(rec, data_key, index) ==
    [rec |-> rec.id, key |-> data_key, copy |-> index + 1]

\* lines 130-134: the array objects the non-chunked fields of the chunk hold
non_chunked_refs(rec, chunks, index) ==
    [data_key \in DOMAIN rec.data \ DOMAIN chunks |-> CopyOf(rec, data_key, index)]

\* The chunk record as it appears in c_out: with the record it was cut from,
\* its chunk index, the array objects behind its non-chunked fields and the
\* fields the consumer has written to through this chunk.
Emitted(rec, chunks, index) ==
    [src |-> rec.id, index |-> index, data |-> chunk_data(rec, chunks, index),
     refs |-> non_chunked_refs(rec, chunks, index), touched |-> {}]

\* bounds of the Chunker model
MaxChunkStream == 2   \* records the upstream of the Chunker delivers at most
MaxChunkLen == 3      \* largest axis-0 length of a field (Chunker records)
MaxChunk == 2         \* largest configured chunk size / chunk step
MaxMutations == 1     \* chunk records the consumer writes to at most

\* Records of one field x, or of two fields x and y; y takes the extreme
\* non-zero lengths.
ChunkerShapes ==
    [{"x"} -> 0..MaxChunkLen]
        \cup {s \in [Fields -> 0..MaxChunkLen] : s["y"] \in {1, MaxChunkLen}}

Sizes == 1..MaxChunk

YSizes == {1, MaxChunk}

ChunkingArgs ==
    {PyInt(n) : n \in Sizes}
        \cup {PyTuple(PyInt(n), PyInt(m)) : n \in Sizes, m \in Sizes}
        \cup {PyDict([k \in {"x"} |-> n]) : n \in Sizes}
        \cup {PyTuple(PyDict([k \in {"x"} |-> n]), PyDict([k \in {"x"} |-> m])) :
                n \in Sizes, m \in Sizes}
        \cup {PyTuple(PyDict([k \in Fields |-> IF k = "x" THEN n[1] ELSE n[2]]),
                      PyDict([k \in Fields |-> IF k = "x" THEN m[1] ELSE m[2]])) :
                n \in Sizes \X YSizes, m \in Sizes \X YSizes}

CFresh(arg, source, pc) ==
    /\ chunking = arg
    /\ c_source = source
    /\ _chunk_size = NumbersDict(PyInt(0))
    /\ _chunk_step = NumbersDict(PyInt(0))
    /\ c_pc = pc
    /\ c_drawn = <<>>
    /\ chunking_data_keys = <<>>
    /\ c_data_dict = NoRecord
    /\ data_chunks = EmptyDict
    /\ num_chunks = <<>>
    /\ chunk_index = 0
    /\ c_out = <<>>
    /\ c_error = ""

CInit == \E arg \in ChunkingArgs : CFresh(arg, ChunkerShapes, "new")

CIdle == CFresh(PyNone, {}, "idle")

\* Chunker.__init__, lines 86-87
CConstruct ==
    /\ UNCHANGED <<bvars, kvars>>
    /\ c_pc = "new"
    /\ LET parsed == _parse_chunking(chunking) IN
       /\ _chunk_size' = parsed.chunk_size
       /\ _chunk_step' = parsed.chunk_step
       /\ c_error' = parsed.error
       /\ c_pc' = IF parsed.error = "" THEN "ready" ELSE "error"
    /\ UNCHANGED <<chunking, c_source, c_drawn, chunking_data_keys, c_data_dict,
                   data_chunks, num_chunks, chunk_index, c_out>>

\* line 94: the generator is started
CStart ==
    /\ UNCHANGED <<bvars, kvars>>
    /\ c_pc = "ready"
    /\ chunking_data_keys' = KeyList(keys(_chunk_size))
    /\ c_pc' = "for"
    /\ UNCHANGED <<chunking, _chunk_size, _chunk_step, c_source, c_drawn,
                   c_data_dict, data_chunks, num_chunks, chunk_index, c_out, c_error>>

\* lines 98-100
KeysFor(cur, rec) == IF cur = <<>> THEN KeyList(DOMAIN rec.data) ELSE cur

\* lines 96-136: the upstream hands over its next record; it is cut into
\* chunks and the first chunk is yielded, or an exception ends the generator
CDraw ==
    /\ UNCHANGED <<bvars, kvars>>
    /\ c_pc = "for"
    /\ Len(c_drawn) < MaxChunkStream
    /\ \E shape \in c_source :
         LET rec == [id |-> Len(c_drawn) + 1,
                     data |-> [k \in DOMAIN shape |-> Iota(shape[k])]]
             ks == KeysFor(chunking_data_keys, rec)
             res == ChunkRecord(ks, rec, _chunk_size, _chunk_step)
         IN
         /\ c_drawn' = Append(c_drawn, rec)
         /\ c_data_dict' = rec
         /\ chunking_data_keys' = ks
         /\ IF ks = <<>>
            THEN /\ c_error' = "AssertionError: sequence without any data"
                 /\ c_pc' = "error"
                 /\ UNCHANGED <<data_chunks, num_chunks, chunk_index, c_out>>
            ELSE IF res.error # ""
            THEN /\ c_error' = res.error
                 /\ c_pc' = "error"
                 /\ UNCHANGED <<data_chunks, num_chunks, chunk_index, c_out>>
            ELSE /\ data_chunks' = res.data_chunks
                 /\ num_chunks' = res.num_chunks
                 /\ chunk_index' = 0
                 /\ c_out' = Append(c_out, Emitted(rec, res.data_chunks, 0))
                 /\ c_pc' = "yield"
                 /\ c_error' = c_error
    /\ UNCHANGED <<chunking, _chunk_size, _chunk_step, c_source>>

\* lines 124-136: resumed after the yield of line 136
CResume ==
    /\ UNCHANGED <<bvars, kvars>>
    /\ c_pc = "yield"
    /\ IF chunk_index + 1 < num_chunks[1]
       THEN /\ chunk_index' = chunk_index + 1
            /\ c_out' = Append(c_out, Emitted(c_data_dict, data_chunks,
                                                chunk_index + 1))
            /\ c_pc' = "yield"
       ELSE /\ c_pc' = "for"
            /\ UNCHANGED <<chunk_index, c_out>>
    /\ UNCHANGED <<chunking, _chunk_size, _chunk_step, c_source, c_drawn,
                   chunking_data_keys, c_data_dict, data_chunks, num_chunks, c_error>>

\* line 96: the upstream is exhausted, the generator returns
CExhausted ==
    /\ UNCHANGED <<bvars, kvars>>
    /\ c_pc = "for"
    /\ c_pc' = "done"
    /\ UNCHANGED <<chunking, _chunk_size, _chunk_step, c_source, c_drawn,
                   chunking_data_keys, c_data_dict, data_chunks, num_chunks,
                   chunk_index, c_out, c_error>>

\* What a write leaves of an array: every element overwritten.
Overwritten(data) == [i \in 1..Len(data) |-> 0]

\* The downstream consumer writes to a non-chunked field of a chunk record
\* it was handed (line 136): the array object behind the field changes, for
\* every holder of that object.
CMutate ==
    /\ UNCHANGED <<bvars, kvars>>
    /\ Cardinality({j \in 1..Len(c_out) : c_out[j].touched # {}}) < MaxMutations
    /\ \E j \in 1..Len(c_out) :
         \E f \in DOMAIN c_out[j].refs \ c_out[j].touched :
            LET obj == c_out[j].refs[f]
                written(rec) ==
                    IF obj.copy = 0 /\ rec.id = obj.rec
                    THEN [rec EXCEPT !.data[f] = Overwritten(@)]
                    ELSE rec
            IN
            /\ c_out' = [i \in 1..Len(c_out) |->
                           LET e == c_out[i]
                               hit == f \in DOMAIN e.refs /\ e.refs[f] = obj
                           IN
                           [e EXCEPT !.data = IF hit
                                              THEN [e.data EXCEPT ![f] = Overwritten(@)]
                                              ELSE @,
                                     !.touched = IF i = j THEN @ \cup {f} ELSE @]]
            /\ c_drawn' = [k \in 1..Len(c_drawn) |-> written(c_drawn[k])]
            /\ c_data_dict' = written(c_data_dict)
    /\ UNCHANGED <<chunking, _chunk_size, _chunk_step, c_pc, c_source,
                   chunking_data_keys, data_chunks, num_chunks, chunk_index, c_error>>

CNext ==
    \/ CConstruct
    \/ CStart
    \/ CDraw
    \/ CResume
    \/ CExhausted

\* ---------------------------------------------------------- specifications
\* Batching alone
\* A batch as collate_batch gets it: a list of dicts from field names to
\* arrays. The records of one batch need not have the same fields.
CollateRecords ==
    UNION {[K -> {Iota(n) : n \in 1..MaxLen}] : K \in SUBSET Fields}

CollateBatches ==
    UNION {[1..n -> CollateRecords] : n \in 0..MaxSeqsBound}

\* pad_sequence(ls, batch_first=True, padding_value=0), line 60
pad_sequence(ls) ==
    LET lens == {Len(ls[i]) : i \in 1..Len(ls)}
        longest == CHOOSE n \in lens : \A m \in lens : m <= n
    IN
    [i \in 1..Len(ls) |->
        [j \in 1..longest |-> IF j <= Len(ls[i]) THEN ls[i][j] ELSE 0]]

\* line 62
seq_len(ls) == [i \in 1..Len(ls) |-> Len(ls[i])]

\* line 55: the fields are those of the first record
data_keys(b) == DOMAIN b[1]

\* collate_batch, lines 52-64. res[key] is kept under data, res["key:seq_len"]
\* under seq_len.
collate_batch(b) ==
    IF b = <<>> THEN [error |-> "AssertionError: batch is empty?", res |-> EmptyDict]
    ELSE IF \E key \in data_keys(b), i \in 1..Len(b) : key \notin DOMAIN b[i]
    THEN [error |-> "KeyError", res |-> EmptyDict]
    ELSE [error |-> "",
          res |-> [key \in data_keys(b) |->
                    LET ls == [i \in 1..Len(b) |-> b[i][key]] IN
                    [data |-> pad_sequence(ls), seq_len |-> seq_len(ls)]]]

KIdle ==
    /\ k_batch = <<>>
    /\ k_pc = "idle"
    /\ k_res = EmptyDict
    /\ k_error = ""

KInit ==
    /\ k_batch \in CollateBatches
    /\ k_pc = "call"
    /\ k_res = EmptyDict
    /\ k_error = ""

\* the call of collate_batch
KCollate ==
    /\ UNCHANGED <<bvars, cvars>>
    /\ k_pc = "call"
    /\ LET out == collate_batch(k_batch) IN
       /\ k_res' = out.res
       /\ k_error' = out.error
       /\ k_pc' = IF out.error = "" THEN "returned" ELSE "error"
    /\ k_batch' = k_batch

Init == BInit /\ CIdle /\ KIdle

Next == BNext

Spec == Init /\ [][Next]_vars

\* The consumer keeps pulling: the generator is resumed whenever it can run.
FairSpec == Spec /\ WF_vars(Next)

\* the Chunker alone
InitChunker == CInit /\ BIdle /\ KIdle

SpecChunker == InitChunker /\ [][CNext]_vars

\* the Chunker with chunk_size=4, chunk_step=2 over one field of length up to 10
InitScenarioC ==
    /\ CFresh(PyTuple(PyInt(4), PyInt(2)), [{"x"} -> 0..10], "new")
    /\ BIdle
    /\ KIdle

SpecScenarioC == InitScenarioC /\ [][CNext]_vars

\* Batching with max_seqs=2 and batch_size={"x": 6} over up to four records
\* of one field of length up to 4
InitScenarioA ==
    /\ BNew(PyDict([k \in {"x"} |-> 6]), PyInt(2),
            [shapes |-> [{"x"} -> 1..4], length |-> 4])
    /\ CIdle
    /\ KIdle

NextScenarioA == BConstruct \/ BNext

SpecScenarioA == InitScenarioA /\ [][NextScenarioA]_vars

\* collate_batch called with a batch of any records
InitCollate == KInit /\ BIdle /\ CIdle

SpecCollate == InitCollate /\ [][KCollate]_vars

\* records with a field y that a Chunker configured for x passes through
CopyShapes == {s \in [Fields -> 0..MaxChunkLen] : s["y"] = MaxChunkLen}

\* the Chunker configured for field x alone, with a consumer that writes to
\* the chunk records it was handed
InitCopy ==
    /\ \E arg \in {PyDict([k \in {"x"} |-> n]) : n \in Sizes}
                  \cup {PyTuple(PyDict([k \in {"x"} |-> n]),
                                PyDict([k \in {"x"} |-> m])) :
                           n \in Sizes, m \in Sizes} :
         CFresh(arg, CopyShapes, "new")
    /\ BIdle
    /\ KIdle

NextCopy == CNext \/ CMutate

SpecCopy == InitCopy /\ [][NextCopy]_vars

\* Construction with arguments of every kind, valid or not: of a Chunker, or
\* of a Batching.
IntArgs == {PyInt(n) : n \in -1..MaxChunk}

DictArgs ==
    {PyDict([k \in {"x"} |-> n]) : n \in -1..MaxChunk}
        \cup {PyDict([k \in Fields |-> IF k = "x" THEN n ELSE m]) :
                n \in {1, MaxChunk}, m \in {0, 1}}

PartArgs == {PyNone} \cup IntArgs \cup DictArgs

ConfigChunkingArgs == PartArgs \cup {PyTuple(a, b) : a \in PartArgs, b \in PartArgs}

ConfigShapes ==
    [{"x"} -> 0..MaxChunkLen] \cup {[k \in Fields |-> MaxChunkLen]}

ConfigBatchSizeArgs ==
    {PyNone}
        \cup {PyInt(n) : n \in -1..1}
        \cup {PyDict([k \in {"x"} |-> n]) : n \in -1..1}
        \cup {PyDict([k \in Fields |-> IF k = "x" THEN 1 ELSE n]) : n \in 0..1}

ConfigMaxSeqsArgs == {PyNone} \cup {PyInt(n) : n \in -2..1}

InitConfig ==
    \/ /\ \E arg \in ConfigChunkingArgs : CFresh(arg, ConfigShapes, "new")
       /\ BIdle
       /\ KIdle
    \/ /\ \E batch_size \in ConfigBatchSizeArgs, max_seqs \in ConfigMaxSeqsArgs :
            BNew(batch_size, max_seqs, [shapes |-> Shapes, length |-> MaxStream])
       /\ CIdle
       /\ KIdle

NextConfig == CNext \/ BNext \/ BConstruct

SpecConfig == InitConfig /\ [][NextConfig]_vars

\* ------------------------------------------------------- Batching: claims
RECURSIVE Concat(_)
Concat(batches) ==
    IF batches = <<>> THEN <<>> ELSE Head(batches) \o Concat(Tail(batches))

Elems(seq) == {seq[i] : i \in 1..Len(seq)}

\* The limit batch_size sets for field f: <<n>>, or <<>> when it sets none.
LimitOf(f) ==
    IF f \in keys(_max_batch_size) THEN <<_max_batch_size.dict[f]>>
    ELSE _max_batch_size.value

Oversized(rec) ==
    \E f \in Fields : LimitOf(f) # <<>> /\ rec.shape[f] > LimitOf(f)[1]

MaxLenIn(batch, f) ==
    CHOOSE m \in {r.shape[f] : r \in Elems(batch)} :
        \A r \in Elems(batch) : r.shape[f] <= m

\* C1: once Batching is drained, the concatenation of the emitted batches,
\* in emission order, is exactly the sequence of records drawn from the
\* upstream: nothing dropped, duplicated or reordered.
C1_Concatenation == b_pc = "done" => Concat(b_out) = b_drawn

C1_Witness ==
    /\ b_pc = "done"
    /\ Len(b_drawn) = MaxStream
    /\ Len(b_out) = 2
    /\ Len(b_out[1]) = 2

\* C2: every emitted batch holds at least 1 and at most max_seqs records.
C2_BatchLength ==
    \A i \in 1..Len(b_out) : Len(b_out[i]) >= 1 /\ Len(b_out[i]) <= _max_seqs

C2_Witness ==
    /\ b_pc = "yield_max_seqs"
    /\ _max_seqs = 2
    /\ Len(b_out[Len(b_out)]) = 2

\* C3: every emitted batch of more than one record keeps, for every field
\* with a configured limit, (longest length in the batch) * len(batch)
\* within that limit.
C3_PaddedSize ==
    \A i \in 1..Len(b_out) :
        Len(b_out[i]) > 1 =>
            \A f \in Fields :
                LimitOf(f) # <<>> =>
                    MaxLenIn(b_out[i], f) * Len(b_out[i]) <= LimitOf(f)[1]

\* a two-record batch that fills the budget of x exactly, the longer record
\* first, sealed because the third record would not fit
C3_Witness ==
    /\ b_pc = "yield_size"
    /\ Len(b_out) = 1
    /\ Len(b_out[1]) = 2
    /\ b_out[1][1].shape["x"] > b_out[1][2].shape["x"]
    /\ LimitOf("x") # <<>>
    /\ MaxLenIn(b_out[1], "x") * 2 = LimitOf("x")[1]

\* C4: a record that alone exceeds the limit of some field is emitted
\* exactly once, as a batch of its own: never inside a larger batch, and
\* once the stream is drained exactly one emitted batch holds it.
C4_OversizedAlone ==
    /\ \A i \in 1..Len(b_out) :
         \A r \in Elems(b_out[i]) : Oversized(r) => b_out[i] = <<r>>
    /\ b_pc = "done" =>
         \A k \in 1..Len(b_drawn) :
             Oversized(b_drawn[k]) =>
                 Cardinality({i \in 1..Len(b_out) : b_drawn[k] \in Elems(b_out[i])}) = 1

\* an oversized record between two records that fit together
C4_Witness ==
    /\ b_pc = "done"
    /\ Len(b_drawn) = 3
    /\ Oversized(b_drawn[2])
    /\ ~Oversized(b_drawn[1])
    /\ \A f \in Fields : b_drawn[1].shape[f] = b_drawn[3].shape[f]
    /\ \A f \in Fields :
         LimitOf(f) # <<>> => 2 * b_drawn[1].shape[f] <= LimitOf(f)[1]
    /\ Len(b_out) = 3

\* C5: with a consumer that keeps pulling, Batching terminates; it does not
\* terminate before the upstream is exhausted; and every record drawn has
\* by then been handed downstream (the trailing partial batch included).
C5_Termination ==
    /\ <>(b_pc = "done")
    /\ [](b_pc \in {"yield_final", "done"} => b_exhausted)
    /\ [](b_pc = "done" => Elems(b_drawn) \subseteq Elems(Concat(b_out)))

\* the final batch is a trailing partial batch
C5_Witness ==
    /\ b_pc = "done"
    /\ b_exhausted
    /\ Len(b_drawn) = MaxStream
    /\ Len(b_out) = 2
    /\ Len(b_out[2]) = 1
    /\ _max_seqs = 2

\* -------------------------------------------------------- Chunker: claims
ActiveKeys == Elems(chunking_data_keys)

\* The chunk records emitted for the k-th record, in emission order.
ChunksFrom(k) == SelectSeq(c_out, LAMBDA e : e.src = k)

\* The Chunker has gone past the k-th record.
Complete(k) ==
    \/ k < Len(c_drawn)
    \/ k = Len(c_drawn) /\ c_pc \in {"for", "done"}

\* ceil(len / step), by its defining inequalities
CeilDiv(len, step) ==
    CHOOSE n \in 0..len : n * step >= len /\ (n = 0 \/ (n - 1) * step < len)

FieldLen(k, f) == Len(c_drawn[k].data[f])

\* C6: a record the Chunker has gone past was cut into exactly
\* ceil(len/step) chunks, at least one, for every active field; a record
\* with an active field of length 0 ends the Chunker with an error and
\* nothing is emitted for it.
C6_NumChunks ==
    \A k \in 1..Len(c_drawn) :
        /\ Complete(k) =>
             /\ Len(ChunksFrom(k)) >= 1
             /\ \A f \in ActiveKeys :
                  /\ f \in DOMAIN c_drawn[k].data
                  /\ FieldLen(k, f) > 0
                  /\ Len(ChunksFrom(k)) = CeilDiv(FieldLen(k, f), Item(_chunk_step, f))
        /\ (\E f \in ActiveKeys \cap DOMAIN c_drawn[k].data : FieldLen(k, f) = 0) =>
             /\ k = Len(c_drawn)
             /\ c_pc = "error"
             /\ c_error # ""
             /\ ChunksFrom(k) = <<>>

\* an empty record after a record of 3 elements cut with step 2
C6_Witness ==
    /\ c_pc = "error"
    /\ Len(c_drawn) = 2
    /\ "x" \in ActiveKeys
    /\ FieldLen(1, "x") = 3
    /\ Item(_chunk_step, "x") = 2
    /\ Len(ChunksFrom(1)) = 2
    /\ FieldLen(2, "x") = 0

\* C7: the output is, record by record in source order and within a record
\* by increasing chunk index from 0, one chunk record per index; in it every
\* active field is the slice of the record's field at offset i*step of
\* length min(size, len - i*step).
C7_Slices ==
    /\ \A j \in 1..Len(c_out) :
         LET e == c_out[j]
             rec == c_drawn[e.src]
         IN
         /\ IF j = 1 THEN e.src = 1 /\ e.index = 0
            ELSE \/ e.src = c_out[j - 1].src /\ e.index = c_out[j - 1].index + 1
                 \/ /\ e.src = c_out[j - 1].src + 1
                    /\ e.index = 0
                    /\ \A f \in ActiveKeys :
                         (c_out[j - 1].index + 1) * Item(_chunk_step, f)
                             >= FieldLen(e.src - 1, f)
         /\ \A f \in ActiveKeys :
              LET start == e.index * Item(_chunk_step, f)
                  n == PyMin(Item(_chunk_size, f), FieldLen(e.src, f) - start)
              IN
              /\ n >= 1
              /\ e.data[f] = [p \in 1..n |-> rec.data[f][start + p]]

\* overlapping chunks (size 2, step 1) of two records, the last chunk short
C7_Witness ==
    /\ c_pc = "done"
    /\ Len(c_drawn) = 2
    /\ "x" \in ActiveKeys
    /\ Item(_chunk_size, "x") = 2
    /\ Item(_chunk_step, "x") = 1
    /\ FieldLen(1, "x") = 3
    /\ Len(ChunksFrom(1)) = 3
    /\ Len(ChunksFrom(1)[3].data["x"]) = 1
    /\ Len(ChunksFrom(2)) >= 2

\* C8 as stated: with chunk_size=4 and chunk_step=2, a field of length 10 is
\* cut into exactly 5 chunks, at offsets 0,2,4,6,8 and of lengths 4,4,4,2,2.
C8_AsStated ==
    \A k \in 1..Len(c_drawn) :
        Complete(k) /\ FieldLen(k, "x") = 10 =>
            LET cs == ChunksFrom(k) IN
            /\ Len(cs) = 5
            /\ [i \in 1..5 |-> Len(cs[i].data["x"])] = <<4, 4, 4, 2, 2>>
            /\ [i \in 1..5 |-> cs[i].data["x"][1] - 1] = <<0, 2, 4, 6, 8>>

\* C8, amended: with chunk_size=4 and chunk_step=2, a field of length 10 is
\* cut into exactly 5 chunks, at offsets 0,2,4,6,8 and of lengths 4,4,4,4,2.
C8_ScenarioC ==
    \A k \in 1..Len(c_drawn) :
        Complete(k) /\ FieldLen(k, "x") = 10 =>
            LET cs == ChunksFrom(k) IN
            /\ Len(cs) = 5
            /\ [i \in 1..5 |-> Len(cs[i].data["x"])] = <<4, 4, 4, 4, 2>>
            /\ [i \in 1..5 |-> cs[i].data["x"][1] - 1] = <<0, 2, 4, 6, 8>>

C8_Witness ==
    /\ c_pc = "done"
    /\ Len(c_drawn) = 2
    /\ FieldLen(2, "x") = 10
    /\ Len(ChunksFrom(2)) = 5

\* the active fields of the k-th record, in order of emission, end to end
Rebuilt(k, f) ==
    LET cs == ChunksFrom(k) IN Concat([i \in 1..Len(cs) |-> cs[i].data[f]])

\* C9: when chunk_step equals chunk_size for an active field, the chunks of
\* a record, concatenated in emission order, are the field's original array.
C9_RoundTrip ==
    \A k \in 1..Len(c_drawn) :
        Complete(k) =>
            \A f \in ActiveKeys :
                Item(_chunk_step, f) = Item(_chunk_size, f) =>
                    Rebuilt(k, f) = c_drawn[k].data[f]

\* 3 elements in chunks of 2: two chunks, the second short
C9_Witness ==
    /\ c_pc = "done"
    /\ "x" \in ActiveKeys
    /\ Item(_chunk_size, "x") = 2
    /\ Item(_chunk_step, "x") = 2
    /\ Len(c_drawn) >= 1
    /\ FieldLen(1, "x") = 3
    /\ Len(ChunksFrom(1)) = 2

\* The active fields of the k-th record, all present, do not all yield the
\* same number of chunks.
Mismatch(k) ==
    /\ ActiveKeys \subseteq DOMAIN c_drawn[k].data
    /\ \E f \in ActiveKeys, g \in ActiveKeys :
         CeilDiv(FieldLen(k, f), Item(_chunk_step, f))
             # CeilDiv(FieldLen(k, g), Item(_chunk_step, g))

\* C10: a record whose active fields do not yield the same number of chunks
\* ends the Chunker with an error before any chunk of it is emitted; after
\* an error nothing more is emitted, what was emitted before stays as it
\* was, and every emitted chunk record has all fields of its record.
C10_MismatchState ==
    /\ \A k \in 1..Len(c_drawn) :
         Mismatch(k) =>
             /\ k = Len(c_drawn)
             /\ c_pc = "error"
             /\ c_error # ""
             /\ ChunksFrom(k) = <<>>
    /\ \A j \in 1..Len(c_out) :
         DOMAIN c_out[j].data = DOMAIN c_drawn[c_out[j].src].data

C10_MismatchStep ==
    /\ c_pc' = "error" => c_out' = c_out
    /\ c_pc = "error" => c_pc' = "error"
    /\ Len(c_out') >= Len(c_out)
    /\ SubSeq(c_out', 1, Len(c_out)) = c_out

\* C10: the state part holds always, the step part of every step.
C10_Mismatch == [](C10_MismatchState) /\ [][C10_MismatchStep]_vars

\* the second record has fields of different lengths; the chunks of the
\* first one are out
C10_Witness ==
    /\ c_pc = "error"
    /\ Len(c_drawn) = 2
    /\ Mismatch(2)
    /\ ~Mismatch(1)
    /\ Len(c_out) >= 2
    /\ ActiveKeys = Fields

\* C11: with a field-keyed configuration, every field of a record that is
\* not an active field is in every chunk emitted for the record with its
\* full original value, and each chunk has a copy of its own: writing to
\* the field in one chunk changes neither another chunk's copy nor the
\* input record.
C11_IndependentCopies ==
    /\ \A k \in 1..Len(c_drawn) :
         \A f \in DOMAIN c_drawn[k].data \ ActiveKeys :
             c_drawn[k].data[f] = Iota(FieldLen(k, f))
    /\ \A j \in 1..Len(c_out) :
         \A f \in DOMAIN c_drawn[c_out[j].src].data \ ActiveKeys :
             /\ f \in DOMAIN c_out[j].data
             /\ f \notin c_out[j].touched =>
                  c_out[j].data[f] = Iota(FieldLen(c_out[j].src, f))

\* the consumer wrote to y in the first of three chunks of a record
C11_Witness ==
    /\ c_pc = "done"
    /\ Len(c_out) >= 3
    /\ c_out[1].touched = {"y"}
    /\ c_out[1].data["y"] # c_out[2].data["y"]
    /\ c_out[3].src = 1
    /\ c_out[3].data["y"] = Iota(MaxChunkLen)

\* --------------------------------------------------- construction: claims
IsNumber(a) == a.t = "int"

IsMapping(a) == a.t = "dict"

ValuesOf(a) ==
    IF IsNumber(a) THEN {a.v}
    ELSE IF IsMapping(a) THEN {a.d[k] : k \in DOMAIN a.d}
    ELSE {}

KeysOf(a) == IF IsMapping(a) THEN DOMAIN a.d ELSE {}

\* the size and the step the chunking argument gives
SizeArg == IF chunking.t = "tuple" THEN chunking.a ELSE chunking

StepArg == IF chunking.t = "tuple" THEN chunking.b ELSE PyNone

\* a step is given: neither absent nor the number 0
StepGiven == StepArg # PyNone /\ StepArg # PyInt(0)

\* The configurations the Chunker has to reject: a size value that is not
\* positive, a given step with a negative value, or a given step whose key
\* set differs from that of the size (a number has no keys).
BadChunking ==
    \/ \E v \in ValuesOf(SizeArg) : v <= 0
    \/ StepGiven /\ \E v \in ValuesOf(StepArg) : v < 0
    \/ /\ StepGiven
       /\ SizeArg # PyNone
       /\ \/ KeysOf(StepArg) # KeysOf(SizeArg)
          \/ IsNumber(StepArg) # IsNumber(SizeArg)

\* The configurations Batching has to reject.
BadBatching ==
    \/ \E v \in ValuesOf(b_args.batch_size) : v <= 0
    \/ IsNumber(b_args.max_seqs) /\ b_args.max_seqs.v <= 0
                                 /\ b_args.max_seqs.v # -1

\* C12: an invalid configuration is rejected at construction, before any
\* record is drawn: a Chunker with a non-positive size, a negative step or
\* key sets of size and step that differ, a Batching with a non-positive
\* batch size or max_seqs (-1 aside), never gets past __init__.
C12_EagerRejection ==
    /\ c_pc \notin {"new", "idle"} /\ BadChunking =>
         c_pc = "error" /\ c_error # "" /\ c_drawn = <<>> /\ c_out = <<>>
    /\ b_pc \notin {"new", "idle"} /\ BadBatching =>
         b_pc = "error" /\ b_drawn = <<>> /\ b_out = <<>>

\* a size for x and y with a step for x alone was rejected
C12_Witness ==
    /\ c_pc = "error"
    /\ c_drawn = <<>>
    /\ IsMapping(SizeArg)
    /\ IsMapping(StepArg)
    /\ \A v \in ValuesOf(SizeArg) \cup ValuesOf(StepArg) : v > 0
    /\ KeysOf(SizeArg) = Fields
    /\ KeysOf(StepArg) = {"x"}

\* __init__ raised: the generator never started, so nothing was drawn
ConstructionFailed == c_pc = "error" /\ c_drawn = <<>>

\* the five shapes of the chunking argument, with positive values
PositiveValues(a) == \A v \in ValuesOf(a) : v > 0

ValidShape ==
    \/ chunking = PyNone
    \/ IsNumber(chunking) /\ PositiveValues(chunking)
    \/ IsMapping(chunking) /\ PositiveValues(chunking)
    \/ /\ chunking.t = "tuple"
       /\ IsNumber(SizeArg) /\ IsNumber(StepArg)
       /\ PositiveValues(SizeArg) /\ PositiveValues(StepArg)
    \/ /\ chunking.t = "tuple"
       /\ IsMapping(SizeArg) /\ IsMapping(StepArg)
       /\ KeysOf(SizeArg) = KeysOf(StepArg)
       /\ PositiveValues(SizeArg) /\ PositiveValues(StepArg)

\* C13: a chunking argument of any of the five shapes (None, a size, a pair
\* of size and step, a mapping of sizes, a pair of mappings), with positive
\* values, is accepted by the construction of the Chunker; None in
\* particular raises no error.
C13_ShapesAccepted ==
    ValidShape /\ c_pc \notin {"new", "idle"} => ~ConstructionFailed

\* the absent configuration was rejected by the assertion of line 154
C13_NoneRejected ==
    /\ chunking = PyNone
    /\ ConstructionFailed
    /\ c_error = "AssertionError"

\* ----------------------------------------------- Chunker: the active fields
\* a uniform configuration: sizes without field names
Uniform == c_pc \notin {"new", "idle"} /\ ~ConstructionFailed /\ keys(_chunk_size) = {}

\* the fields of a chunk record that are slices, not copies of the whole array
ChunkedFields(e) == DOMAIN e.data \ DOMAIN e.refs

RecordOf(e) == c_drawn[e.src]

\* C14: with a uniform configuration the active fields of each record are
\* the fields of that record: every field of every chunk record is a slice,
\* none is passed through as a copy, and a record that lacks a field of the
\* first record raises no error.
C14_ActiveFieldsPerRecord ==
    Uniform =>
        /\ \A i \in 1..Len(c_out) :
             ChunkedFields(c_out[i]) = DOMAIN RecordOf(c_out[i]).data
        /\ c_error # "KeyError"

\* the second record brought a field the first did not have, and its chunk
\* carries that field whole
C14_PassedThrough ==
    /\ Uniform
    /\ Len(c_drawn) = 2
    /\ DOMAIN c_drawn[1].data = {"x"}
    /\ DOMAIN c_drawn[2].data = Fields
    /\ \E i \in 1..Len(c_out) :
         /\ c_out[i].src = 2
         /\ "y" \in DOMAIN c_out[i].refs
         /\ c_out[i].data["y"] = c_drawn[2].data["y"]
         /\ Len(c_out[i].data["y"]) > Item(_chunk_size, "y")

\* ------------------------------------------------- Chunker: the default step
\* no step is given: it is None (or left out), or the number 0
StepDefaulted == StepArg = PyNone \/ StepArg = PyInt(0)

\* the Chunker configured with the size as its step
Explicit == _parse_chunking(PyTuple(SizeArg, SizeArg))

\* the window of the given size at the given index: consecutive windows
\* that do not overlap
Window(data, size, index) ==
    SubSeq(data, index * size + 1, PyMin(Len(data), index * size + size))

\* C15: a step of None or 0 makes the step equal to the size for every
\* field, the Chunker is the one configured with (chunk_size, chunk_size),
\* and its chunks are consecutive windows of the size that do not overlap.
C15_DefaultStep ==
    c_pc \notin {"new", "idle"} /\ StepDefaulted /\ SizeArg # PyNone
                                /\ PositiveValues(SizeArg) =>
        /\ ~ConstructionFailed
        /\ keys(_chunk_step) = keys(_chunk_size)
        /\ _chunk_step = _chunk_size
        /\ Explicit.error = ""
        /\ _chunk_size = Explicit.chunk_size
        /\ _chunk_step = Explicit.chunk_step
        /\ \A i \in 1..Len(c_out) : \A k \in ChunkedFields(c_out[i]) :
             c_out[i].data[k] =
                 Window(RecordOf(c_out[i]).data[k], Item(_chunk_size, k),
                        c_out[i].index)

\* with (2, 0) a record of three frames came out as the windows [0:2], [2:3]
C15_Witness ==
    /\ chunking = PyTuple(PyInt(2), PyInt(0))
    /\ Len(c_out) = 2
    /\ c_out[1].src = 1 /\ c_out[2].src = 1
    /\ c_out[1].data["x"] = SubSeq(Iota(3), 1, 2)
    /\ c_out[2].data["x"] = SubSeq(Iota(3), 3, 3)

\* ------------------------------------------------------ Batching: scenario A
\* the records drawn so far all have three frames in x
AllOfLength3 == \A i \in 1..Len(b_drawn) : b_drawn[i].shape["x"] = 3

\* C16: with max_seqs=2 and batch_size={"x": 6}, four records s1..s4 of
\* three frames each come out as [s1, s2] and [s3, s4]: s2 joins s1 (3*2 = 6
\* is not more than 6), the batch is sealed when s3 arrives, s3 starts the
\* next batch, and no other batch is produced.
C16_ScenarioA ==
    AllOfLength3 /\ b_pc \notin {"new", "start"} =>
        /\ Len(b_drawn) = 2 /\ b_pc = "for" =>
             b_out = <<>> /\ current_batch = <<b_drawn[1], b_drawn[2]>>
        /\ Len(b_drawn) = 3 =>
             /\ b_out[1] = <<b_drawn[1], b_drawn[2]>>
             /\ b_pc = "for" => current_batch = <<b_drawn[3]>> /\ Len(b_out) = 1
        /\ Len(b_drawn) = 4 /\ b_pc = "done" =>
             b_out = << <<b_drawn[1], b_drawn[2]>>, <<b_drawn[3], b_drawn[4]>> >>

\* the four records went through and the generator has returned
C16_Witness ==
    /\ AllOfLength3
    /\ Len(b_drawn) = 4
    /\ b_pc = "done"
    /\ Len(b_out) = 2
    /\ _max_seqs = 2
    /\ Item(_max_batch_size, "x") = 6

\* ------------------------------------------------------ records held resident
\* The source records Batching refers to: those of current_batch (which at a
\* yield is the batch being handed over) and the record of the loop variable.
BResident ==
    {current_batch[i] : i \in 1..Len(current_batch)}
        \cup (IF data_dict = NoRecord THEN {} ELSE {data_dict})

\* The source records the Chunker refers to: the record of its loop variable,
\* of which data_chunks holds slices.
CResident == IF c_data_dict = NoRecord THEN {} ELSE {c_data_dict}

\* C17: Batching never holds more than max_seqs source records (current
\* batch, batch being handed over and record under consideration taken
\* together), and the Chunker never more than one.
C17_ResidentRecords ==
    /\ Cardinality(BResident) <= _max_seqs
    /\ Cardinality(CResident) <= 1

\* a full batch is being handed over while the record that arrived is held
C17_OneMore ==
    /\ b_pc = "yield_max_seqs"
    /\ Len(current_batch) = _max_seqs
    /\ b_out[Len(b_out)] = current_batch
    /\ data_dict \notin {current_batch[i] : i \in 1..Len(current_batch)}
    /\ Cardinality(BResident) = _max_seqs + 1

\* ---------------------------------------------------- collate_batch: claims
\* the records of the batch do not all have the same fields
FieldsDisagree ==
    \E i \in 1..Len(k_batch), j \in 1..Len(k_batch) :
        DOMAIN k_batch[i] # DOMAIN k_batch[j]

\* C18: collate_batch fails whenever the records of the batch disagree on
\* their field names, be it a record that lacks a field of the first record
\* or one that has a field more; no field of any record is left out.
C18_InconsistentFields ==
    k_pc \notin {"call", "idle"} /\ FieldsDisagree => k_pc = "error"

\* a batch whose second record has a field more than the first was collated
\* without error, and the result has nothing of that field
C18_ExtraIgnored ==
    /\ k_pc = "returned"
    /\ Len(k_batch) = 2
    /\ DOMAIN k_batch[1] = {"x"}
    /\ DOMAIN k_batch[2] = Fields
    /\ DOMAIN k_res = {"x"}

\* ------------------------------------------------- Batching: what is held
\* The records Batching has drawn and not handed over: the batch it is
\* filling, or, while a batch is being handed over at line 202 or 213, the
\* record whose arrival sealed it.
Held ==
    IF b_pc \in {"yield_max_seqs", "yield_size"} THEN <<data_dict>>
    ELSE IF b_pc \in {"yield_final", "done"} THEN <<>>
    ELSE current_batch

\* C19: at every point the records drawn are, in order, the batches handed
\* over so far followed by the records still held (the batch being filled,
\* or the one record under consideration during a handover); what a consumer
\* that stops pulling loses is a trailing run of the drawn records, and a
\* batch that was handed over is never changed afterwards.
C19_DrawnIsEmittedThenHeld ==
    /\ [](b_drawn = Concat(b_out) \o Held)
    /\ [](b_pc \in {"yield_max_seqs", "yield_size"} =>
            data_dict = b_drawn[Len(b_drawn)] /\ b_out # <<>>)
    /\ [][SubSeq(b_out', 1, Len(b_out)) = b_out]_vars

\* a consumer that stops here loses the last record drawn and no other
C19_Witness ==
    /\ b_pc = "for"
    /\ Len(b_drawn) = MaxStream
    /\ Len(b_out) = 1
    /\ Len(b_out[1]) = MaxStream - 1
    /\ current_batch = <<b_drawn[MaxStream]>>

\* C20: whenever a record has been processed and the next is not yet drawn,
\* current_max_sequence_lengths is, for every field, the largest length of
\* that field among the records of current_batch, and zero for every field
\* when current_batch is empty; nothing of a batch handed over remains in
\* it, whichever rule sealed that batch.
C20_MaximaOfCurrentBatch ==
    b_pc = "for" =>
        \A f \in Fields :
            Item(current_max_sequence_lengths, f) =
                IF current_batch = <<>> THEN 0 ELSE MaxLenIn(current_batch, f)

\* after a budget seal the batch in progress holds a record shorter than
\* the longest record of the batch handed over
C20_Witness ==
    /\ b_pc = "for"
    /\ Len(b_out) = 1
    /\ Len(current_batch) = 1
    /\ Len(b_out[1]) < _max_seqs
    /\ MaxLenIn(b_out[1], "x") = MaxLen
    /\ current_batch[1].shape["x"] = 1
    /\ Item(current_max_sequence_lengths, "x") = 1

\* ------------------------------------------------- Batching: greedy batches
\* the position in b_drawn of the record that arrived after the i-th batch
NextAfter(i) == Len(Concat(SubSeq(b_out, 1, i))) + 1

\* with the record r added, the padded size of the batch would be over the
\* limit of field f
WouldExceed(b, r, f) ==
    /\ LimitOf(f) # <<>>
    /\ PyMax(MaxLenIn(b, f), r.shape[f]) * (Len(b) + 1) > LimitOf(f)[1]

\* C21: a batch handed over while input remains was sealed for one of two
\* reasons only: it holds exactly max_seqs records, or with the next record
\* its padded size, max(longest of the batch, length of the record) times
\* (len(batch) + 1), would be over the limit in some field; no batch is
\* sealed while the next record would still fit under both limits.
C21_GreedyMaximal ==
    \A i \in 1..Len(b_out) :
        NextAfter(i) <= Len(b_drawn) =>
            \/ Len(b_out[i]) = _max_seqs
            \/ \E f \in Fields : WouldExceed(b_out[i], b_drawn[NextAfter(i)], f)

\* a batch of fewer than max_seqs records was sealed by the limit of x on
\* the arrival of a record that fits the limit on its own
C21_Witness ==
    /\ b_pc = "yield_size"
    /\ Len(b_out) = 1
    /\ Len(b_out[1]) < _max_seqs
    /\ NextAfter(1) = Len(b_drawn)
    /\ data_dict = b_drawn[NextAfter(1)]
    /\ ~Oversized(data_dict)
    /\ WouldExceed(b_out[1], data_dict, "x")
    /\ ~WouldExceed(b_out[1], data_dict, "y")

====
